---------------------------- MODULE Spec2Model ----------------------------
(***************************************************************************)
(* Model of informes/generador_pdf.py (GeneradorPDFProfesional and the     *)
(* module-level sanitizer limpiar_html_para_reportlab).                    *)
(*                                                                         *)
(* Texts are sequences of one-character strings.  An optional metric       *)
(* (a nullable model field) is a sequence: <<>> is Python's None and <<v>> *)
(* is the present value v.  Metric values are integers (thousandths).      *)
(***************************************************************************)
EXTENDS Integers, Sequences, FiniteSets, TLC

VARIABLES
    \* ---- limpiar_html_para_reportlab -------------------------------------
    texto,          \* the text handed to the sanitizer
    salida1,        \* limpiar_html_para_reportlab(texto)
    salida2,        \* limpiar_html_para_reportlab(salida1)
    pasadas,        \* how many times the sanitizer has been applied (0..2)
    \* ---- the stored data and the request ---------------------------------
    parcelaBD,      \* the requested parcel in the database: activa, inactiva, ausente
    indicesBD,      \* the IndiceMensual rows stored for the parcel (a set)
    hoy,            \* date.today(), as [anio, mes]
    meses_atras,    \* the lookback argument
    \* ---- generar_informe_completo ----------------------------------------
    pc,             \* the statement the request is at
    error,          \* the exception raised to the caller ("" while none)
    fecha_inicio,   \* <<>> until computed, then <<[anio, mes]>>
    indices,        \* the filtered, ordered query result
    datos_analisis, \* the output of _preparar_datos_analisis
    invocados,      \* the analyzers whose analizar was called
    analisis_completo, \* <<>> until built, then <<bundle>>
    graficos,       \* <<>> until built, then <<[evolucion_temporal, comparativo]>>
    directorio,     \* whether os.makedirs has run
    story,          \* the list of flowables handed to doc.build
    archivo,        \* what is visible at output_path: ausente, parcial, completo
    \* ---- matplotlib.pyplot, shared by every thread of the process --------
    Gcf,            \* pyplot's managed figures, the current figure last
    lienzos,        \* what has been drawn on each figure ever created
    \* ---- concurrent _generar_graficos calls ------------------------------
    hiloPc,         \* the statement each call is at
    hiloFig,        \* the figure plt.subplots returned to each call (0: none yet)
    bufferes,       \* the buffers each call has filled so far
    ajenas,         \* the pyplot operations that acted on another call's figure
    \* ---- the section builders ---------------------------------------------
    resumen,        \* <<>> until _crear_resumen_ejecutivo ran, then <<its result>>
    seccion_recs,   \* <<>> until _crear_seccion_recomendaciones ran, then <<its blocks>>
    tabla,          \* <<>> until _crear_tabla_datos ran, then its table_data rows
    \* ---- the canvas doc.build hands to _crear_header_footer ---------------
    paginas,        \* what the callback drew on each page laid out so far
    pila_canvas     \* how many saved graphics states the canvas holds

varsLimpiar == <<texto, salida1, salida2, pasadas>>

varsBD == <<parcelaBD, indicesBD, hoy, meses_atras>>

varsInforme == <<pc, error, fecha_inicio, indices, datos_analisis, invocados,
                 analisis_completo, graficos, directorio, story, archivo>>

varsPyplot == <<Gcf, lienzos, hiloPc, hiloFig, bufferes, ajenas>>

varsSecciones == <<resumen, seccion_recs, tabla>>

varsPaginas == <<paginas, pila_canvas>>

vars == <<varsLimpiar, varsBD, varsInforme, varsPyplot, varsSecciones, varsPaginas>>

\* what the actions of each component leave alone
restoLimpiar == <<varsBD, varsInforme, varsPyplot, varsSecciones, varsPaginas>>

restoInforme == <<varsLimpiar, varsBD, varsPyplot, varsSecciones, varsPaginas>>

restoPyplot == <<varsLimpiar, varsBD, varsInforme, varsSecciones, varsPaginas>>

restoSecciones == <<varsLimpiar, varsBD, varsPyplot, varsPaginas>>

restoPaginas == <<varsLimpiar, varsBD, varsInforme, varsPyplot, varsSecciones>>

-----------------------------------------------------------------------------
(***************************************************************************)
(* Bounds                                                                  *)
(***************************************************************************)
\* longest input text of the sanitizer, counted in tokens
MaxTokens == 4
\* most IndiceMensual rows stored for the parcel
MaxFilas == 2
\* largest lookback argument meses_atras
MaxMesesAtras == 2
\* longest series handed to the chart renderers on their own
MaxSerie == 3
\* report generations running _generar_graficos at the same time
NumSolicitudes == 2
\* longest list of recommendations handed to the section builders
MaxRecs == 3
\* longest series handed to the data table builder on its own
MaxTabla == 2
\* most pages doc.build lays out
MaxPaginas == 4
\* largest lookback argument when the period is computed on its own
MaxMesesPeriodo == 13

-----------------------------------------------------------------------------
(***************************************************************************)
(* limpiar_html_para_reportlab (generador_pdf.py 45-70)                    *)
(***************************************************************************)
BR == <<"<", "b", "r", ">">>
BRS == <<"<", "b", "r", "/", ">">>
BRO == <<"<", "b", "r">>

\* what the regular expression class \s (and str.strip) takes for whitespace
IsWs(c) == c \in {" ", "\n"}

\* the pattern pat occurs in s at position i
MatchAt(s, i, pat) ==
    /\ i + Len(pat) - 1 <= Len(s)
    /\ \A k \in 1..Len(pat) : s[i + k - 1] = pat[k]

\* \s* is greedy: the first position at or after i that holds no whitespace
RECURSIVE SkipWs(_, _)
SkipWs(s, i) == IF i <= Len(s) /\ IsWs(s[i]) THEN SkipWs(s, i + 1) ELSE i

\* re.sub(r'<br>\s*<br>', '<br/><br/>', texto), scanning from position i
RECURSIVE SubBrBrFrom(_, _)
SubBrBrFrom(s, i) ==
    IF i > Len(s) THEN <<>>
    ELSE IF MatchAt(s, i, BR) /\ MatchAt(s, SkipWs(s, i + 4), BR)
         THEN BRS \o BRS \o SubBrBrFrom(s, SkipWs(s, i + 4) + 4)
         ELSE <<s[i]>> \o SubBrBrFrom(s, i + 1)

SubBrBr(s) == SubBrBrFrom(s, 1)

\* re.sub(r'<br(?!/)', '<br/', texto), scanning from position i
RECURSIVE SubSelfClosingFrom(_, _)
SubSelfClosingFrom(s, i) ==
    IF i > Len(s) THEN <<>>
    ELSE IF MatchAt(s, i, BRO) /\ ~MatchAt(s, i + 3, <<"/">>)
         THEN <<"<", "b", "r", "/">> \o SubSelfClosingFrom(s, i + 3)
         ELSE <<s[i]>> \o SubSelfClosingFrom(s, i + 1)

\* the same substitution with the negative lookahead (?!/) forgotten
RECURSIVE SubSelfClosingNoLookaheadFrom(_, _)
SubSelfClosingNoLookaheadFrom(s, i) ==
    IF i > Len(s) THEN <<>>
    ELSE IF MatchAt(s, i, BRO)
         THEN <<"<", "b", "r", "/">> \o SubSelfClosingNoLookaheadFrom(s, i + 3)
         ELSE <<s[i]>> \o SubSelfClosingNoLookaheadFrom(s, i + 1)

SubSelfClosingNoLookahead(s) == SubSelfClosingNoLookaheadFrom(s, 1)

\* the substitution of line 61 left out
SubSelfClosingOmitted(s) == s

SubSelfClosing(s) == SubSelfClosingFrom(s, 1)

\* re.sub(r'<br/>\s+', '<br/>', texto), scanning from position i
RECURSIVE SubWsAfterBrFrom(_, _)
SubWsAfterBrFrom(s, i) ==
    IF i > Len(s) THEN <<>>
    ELSE IF MatchAt(s, i, BRS) /\ SkipWs(s, i + 5) > i + 5
         THEN BRS \o SubWsAfterBrFrom(s, SkipWs(s, i + 5))
         ELSE <<s[i]>> \o SubWsAfterBrFrom(s, i + 1)

SubWsAfterBr(s) == SubWsAfterBrFrom(s, 1)

\* re.sub(r'\s+', ' ', texto), scanning from position i
RECURSIVE SubWsRunsFrom(_, _)
SubWsRunsFrom(s, i) ==
    IF i > Len(s) THEN <<>>
    ELSE IF IsWs(s[i])
         THEN <<" ">> \o SubWsRunsFrom(s, SkipWs(s, i))
         ELSE <<s[i]>> \o SubWsRunsFrom(s, i + 1)

SubWsRuns(s) == SubWsRunsFrom(s, 1)

\* re.sub(r'(<br/>)\s+(\S)', r'\1 \2', texto), scanning from position i
RECURSIVE SubBrSpaceFrom(_, _)
SubBrSpaceFrom(s, i) ==
    IF i > Len(s) THEN <<>>
    ELSE IF /\ MatchAt(s, i, BRS)
            /\ SkipWs(s, i + 5) > i + 5
            /\ SkipWs(s, i + 5) <= Len(s)
         THEN BRS \o <<" ", s[SkipWs(s, i + 5)]>>
                  \o SubBrSpaceFrom(s, SkipWs(s, i + 5) + 1)
         ELSE <<s[i]>> \o SubBrSpaceFrom(s, i + 1)

SubBrSpace(s) == SubBrSpaceFrom(s, 1)

\* str.strip(): leading and trailing whitespace removed
RECURSIVE RStrip(_)
RStrip(s) ==
    IF Len(s) > 0 /\ IsWs(s[Len(s)]) THEN RStrip(SubSeq(s, 1, Len(s) - 1)) ELSE s

Strip(s) == RStrip(SubSeq(s, SkipWs(s, 1), Len(s)))

limpiar_html_para_reportlab(t) ==
    IF t = <<>> THEN <<>>
    ELSE Strip(SubBrSpace(SubWsRuns(SubWsAfterBr(SubSelfClosing(SubBrBr(t))))))

-----------------------------------------------------------------------------
(***************************************************************************)
(* Optional values and Python truthiness                                   *)
(***************************************************************************)
None == <<>>

Some(v) == <<v>>

\* bool(x) of an optional number: None and 0 are both false
Truthy(o) == o # None /\ o[1] # 0

RECURSIVE SumSeq(_)
SumSeq(s) == IF s = <<>> THEN 0 ELSE Head(s) + SumSeq(Tail(s))

Max(a, b) == IF a >= b THEN a ELSE b

-----------------------------------------------------------------------------
(***************************************************************************)
(* generar_informe_completo: the period and the query (178-203)            *)
(***************************************************************************)
\* the loop body without the January branch: month - 1 in every case
RetrocederSinEnero(f) == [anio |-> f.anio, mes |-> f.mes - 1]

\* one pass of the loop body of lines 190-193
RetrocederUnMes(f) ==
    IF f.mes = 1 THEN [anio |-> f.anio - 1, mes |-> 12]
    ELSE [anio |-> f.anio, mes |-> f.mes - 1]

\* for _ in range(meses_atras): ... (lines 186-193)
RECURSIVE RetrocederMeses(_, _)
RetrocederMeses(f, n) ==
    IF n <= 0 THEN f ELSE RetrocederMeses(RetrocederUnMes(f), n - 1)

\* the keyword filter of lines 196-200: año__gte and mes__gte
PasaFiltro(r, fi, ff) ==
    /\ r.anio >= fi.anio
    /\ r.mes >= (IF fi.anio = ff.anio THEN fi.mes ELSE 1)

Antes(a, b) == a.anio < b.anio \/ (a.anio = b.anio /\ a.mes < b.mes)

\* .order_by('año', 'mes')
RECURSIVE OrderBy(_)
OrderBy(S) ==
    IF S = {} THEN <<>>
    ELSE LET m == CHOOSE r \in S : \A q \in S \ {r} : Antes(r, q)
         IN  <<m>> \o OrderBy(S \ {m})

FiltrarIndices(bd, fi, ff) == OrderBy({r \in bd : PasaFiltro(r, fi, ff)})

-----------------------------------------------------------------------------
(***************************************************************************)
(* _preparar_datos_analisis (275-288)                                      *)
(***************************************************************************)
\* f"{indice.año}-{indice.mes:02d}": the year, a dash, two digits of month
EtiquetaMes(indice) == <<indice.anio, "-", indice.mes \div 10, indice.mes % 10>>

\* IndiceMensual.periodo_texto, a property of the model class
PeriodoTexto(indice) == <<indice.mes, "/", indice.anio>>

PrepararFila(indice) ==
    [mes           |-> EtiquetaMes(indice),
     periodo       |-> PeriodoTexto(indice),
     ndvi          |-> indice.ndvi_promedio,
     ndmi          |-> indice.ndmi_promedio,
     savi          |-> indice.savi_promedio,
     temperatura   |-> indice.temperatura_promedio,
     precipitacion |-> indice.precipitacion_total]

_preparar_datos_analisis(ind) == [i \in 1..Len(ind) |-> PrepararFila(ind[i])]

-----------------------------------------------------------------------------
(***************************************************************************)
(* _ejecutar_analisis (290-318)                                            *)
(***************************************************************************)
\* any('savi' in d for d in datos): the key, which every record has
AnySaviKey(datos) == \E i \in 1..Len(datos) : "savi" \in DOMAIN datos[i]

\* any(d.get('savi') for d in datos) (line 302)
AnySavi(datos) == \E i \in 1..Len(datos) : Truthy(datos[i].savi)

\* what an analyzer returns for an index: the analyzers are collaborators
ResultadoAnalizador(indice) == [indice |-> indice]

AnalizadoresInvocados(datos) ==
    {"ndvi", "ndmi", "tendencias", "recomendaciones"}
        \cup (IF AnySavi(datos) THEN {"savi"} ELSE {})

_ejecutar_analisis(datos) ==
    [ndvi            |-> ResultadoAnalizador("ndvi"),
     ndmi            |-> ResultadoAnalizador("ndmi"),
     savi            |-> IF AnySavi(datos)
                         THEN Some(ResultadoAnalizador("savi")) ELSE None,
     tendencias      |-> ResultadoAnalizador("tendencias"),
     recomendaciones |-> <<>>]

-----------------------------------------------------------------------------
(***************************************************************************)
(* _generar_graficos, _grafico_evolucion_temporal, _grafico_comparativo    *)
(* (320-407).  A mean is the pair <<sum, count>> of the division.          *)
(***************************************************************************)
\* [d.get(k, 0) for d in datos]: every record has the key, so None stays None
Columna(datos, k) == [i \in 1..Len(datos) |-> datos[i][k]]

\* any(savi) (line 348)
AnyTruthy(col) == \E i \in 1..Len(col) : Truthy(col[i])

_grafico_evolucion_temporal(datos) ==
    [meses  |-> [i \in 1..Len(datos) |-> datos[i].periodo],
     lineas |-> <<"ndvi", "ndmi">>
                  \o (IF AnyTruthy(Columna(datos, "savi")) THEN <<"savi">> ELSE <<>>),
     ndvi   |-> Columna(datos, "ndvi"),
     ndmi   |-> Columna(datos, "ndmi"),
     savi   |-> Columna(datos, "savi")]

\* sum(d.get(k, 0) for d in datos) raises TypeError on a None
SumaFalla(datos, k) == \E i \in 1..Len(datos) : datos[i][k] = None

Suma(datos, k) == SumSeq([i \in 1..Len(datos) |-> datos[i][k][1]])

\* the records line 378 keeps: if d.get('savi')
ConSavi(datos) == SelectSeq(datos, LAMBDA d : Truthy(d.savi))

\* sum(... if d.get('savi')) / max(1, len([... if d.get('savi')]))
SaviProm(datos) == <<Suma(ConSavi(datos), "savi"), Max(1, Len(ConSavi(datos)))>>

\* sum(d.get('ndvi', 0) for d in datos) / len(datos) (line 376)
NdviProm(datos) == <<Suma(datos, "ndvi"), Len(datos)>>

\* line 377
NdmiProm(datos) == <<Suma(datos, "ndmi"), Len(datos)>>

ComparativoFalla(datos) == SumaFalla(datos, "ndvi") \/ SumaFalla(datos, "ndmi")

_grafico_comparativo(datos) ==
    [indices |-> <<"ndvi", "ndmi", "savi">>,
     valores |-> <<NdviProm(datos), NdmiProm(datos), SaviProm(datos)>>]

_generar_graficos(datos) ==
    [evolucion_temporal |-> _grafico_evolucion_temporal(datos),
     comparativo        |-> _grafico_comparativo(datos)]

-----------------------------------------------------------------------------
(***************************************************************************)
(* The story of generar_informe_completo (232-267).  A flowable is         *)
(* [tipo, seccion]; every section builder returns the blocks of its own    *)
(* section and no PageBreak.                                               *)
(***************************************************************************)
PageBreak == [tipo |-> "PageBreak", seccion |-> ""]

Spacer == [tipo |-> "Spacer", seccion |-> ""]

Seccion(nombre) == <<[tipo |-> "contenido", seccion |-> nombre]>>

\* lines 254-256 with the PageBreak appended outside the if
BloqueSaviBreakSiempre(analisis) ==
    (IF analisis.savi # None THEN Seccion("savi") ELSE <<>>) \o <<PageBreak>>

\* if 'savi' in analisis_completo and analisis_completo['savi']: (254-256)
BloqueSavi(analisis) ==
    IF analisis.savi # None THEN Seccion("savi") \o <<PageBreak>> ELSE <<>>

ArmarStoryDe(analisis) ==
    Seccion("portada") \o <<PageBreak>>
        \o Seccion("resumen_ejecutivo") \o <<PageBreak>>
        \o Seccion("info_parcela") \o <<Spacer>>
        \o Seccion("ndvi") \o <<PageBreak>>
        \o Seccion("ndmi") \o <<PageBreak>>
        \o BloqueSavi(analisis)
        \o Seccion("tendencias") \o <<PageBreak>>
        \o Seccion("recomendaciones") \o <<PageBreak>>
        \o Seccion("tabla_datos")

-----------------------------------------------------------------------------
(***************************************************************************)
(* _crear_seccion_recomendaciones (738-809).  A fixed label of the source  *)
(* is one element of the text; what is interpolated is spelled by          *)
(* character.                                                              *)
(***************************************************************************)
Digito(d) ==
    CASE d = 0 -> "0" [] d = 1 -> "1" [] d = 2 -> "2" [] d = 3 -> "3"
      [] d = 4 -> "4" [] d = 5 -> "5" [] d = 6 -> "6" [] d = 7 -> "7"
      [] d = 8 -> "8" [] d = 9 -> "9"

\* str(n) of a natural number, as an f-string interpolates it
RECURSIVE Str(_)
Str(n) == IF n < 10 THEN <<Digito(n)>> ELSE Str(n \div 10) \o <<Digito(n % 10)>>

\* the keys of por_prioridad (line 755) in the order of line 762
OrdenPrioridades == <<"alta", "media", "baja">>

\* rec.get('prioridad', 'baja') (line 757)
PrioridadDe(rec) == IF "prioridad" \in DOMAIN rec THEN rec.prioridad ELSE "baja"

\* por_prioridad[prioridad] raises KeyError for a key it does not hold (758)
RecomendacionesFalla(recomendaciones) ==
    \E i \in 1..Len(recomendaciones) :
        \A g \in 1..Len(OrdenPrioridades) :
            PrioridadDe(recomendaciones[i]) # OrdenPrioridades[g]

\* por_prioridad[prioridad] after the loop of lines 756-758
por_prioridad(recomendaciones, prioridad) ==
    SelectSeq(recomendaciones, LAMBDA rec : PrioridadDe(rec) = prioridad)

\* rec['acciones'][:5] (line 784)
PrimerasAcciones(rec) == SubSeq(rec.acciones, 1, IF Len(rec.acciones) < 5 THEN Len(rec.acciones) ELSE 5)

\* rec_data (lines 776-788): one text per row
rec_data(contador, rec) ==
    << <<"<strong>">> \o Str(contador) \o <<".", " ">> \o rec.titulo \o <<"</strong>">>,
       <<"<strong>Para tecnicos:</strong> ">> \o rec.descripcion_tecnica,
       <<"<strong>En palabras simples:</strong> ">> \o rec.descripcion_simple,
       <<"<strong>Acciones sugeridas:</strong>">> >>
      \o [k \in 1..Len(PrimerasAcciones(rec)) |-> <<"  * ">> \o PrimerasAcciones(rec)[k]]
      \o << <<"<strong>Impacto esperado:</strong> ">> \o rec.impacto_esperado,
            <<"<strong>Tiempo de implementacion:</strong> ">> \o rec.tiempo_implementacion >>

\* tabla_rec (line 790): the block of one recommendation
tabla_rec(contador, prioridad, rec) ==
    [tipo |-> "Table", seccion |-> prioridad, numero |-> contador,
     rec |-> rec, rec_data |-> rec_data(contador, rec)]

Parrafo(nombre) == [tipo |-> "Paragraph", seccion |-> nombre]

RECURSIVE LargoHasta(_, _)
\* how many recommendations the groups before the g-th hold
LargoHasta(recomendaciones, g) ==
    IF g = 1 THEN 0
    ELSE LargoHasta(recomendaciones, g - 1)
            + Len(por_prioridad(recomendaciones, OrdenPrioridades[g - 1]))

\* contador = 1 inside the loop over the priorities
ContadorPorGrupo(recomendaciones, g) == 1

\* contador when the g-th group starts: set to 1 at line 761 and
\* incremented once per rendered block (line 806)
ContadorAlEmpezar(recomendaciones, g) == 1 + LargoHasta(recomendaciones, g)

\* the elements one pass of the loop of line 762 appends (763-806)
ElementosDeGrupo(recomendaciones, g) ==
    LET prioridad == OrdenPrioridades[g]
        grupo     == por_prioridad(recomendaciones, prioridad)
        c0        == ContadorAlEmpezar(recomendaciones, g)
    IN  IF Len(grupo) = 0 THEN <<>>
        ELSE <<Parrafo(prioridad), Spacer>>
                \o [k \in 1..(2 * Len(grupo)) |->
                       IF k % 2 = 1
                       THEN tabla_rec(c0 + (k - 1) \div 2, prioridad, grupo[(k + 1) \div 2])
                       ELSE Spacer]

\* the builder's return value, or the KeyError it raises
_crear_seccion_recomendaciones(recomendaciones) ==
    IF RecomendacionesFalla(recomendaciones)
    THEN [error |-> "KeyError", elements |-> <<>>]
    ELSE [error |-> "",
          elements |-> <<Parrafo("titulo"), Spacer, Parrafo("intro"), Spacer>>
                          \o ElementosDeGrupo(recomendaciones, 1)
                          \o ElementosDeGrupo(recomendaciones, 2)
                          \o ElementosDeGrupo(recomendaciones, 3)]

-----------------------------------------------------------------------------
(***************************************************************************)
(* _crear_resumen_ejecutivo (515-549).  The mean is the pair <<sum, count>> *)
(* of the division.                                                        *)
(***************************************************************************)
\* analisis[...].get('puntuacion', 0) (lines 525-526)
Puntuacion(resultado) ==
    IF "puntuacion" \in DOMAIN resultado THEN resultado.puntuacion ELSE 0

\* the mean taken over the SAVI score as well when SAVI was analysed
PromedioConSavi(analisis) ==
    IF analisis.savi # None
    THEN <<Puntuacion(analisis.ndvi) + Puntuacion(analisis.ndmi)
              + Puntuacion(analisis.savi[1]), 3>>
    ELSE <<Puntuacion(analisis.ndvi) + Puntuacion(analisis.ndmi), 2>>

\* promedio_general = (ndvi_punt + ndmi_punt) / 2 (line 528)
PromedioGeneral(analisis) ==
    <<Puntuacion(analisis.ndvi) + Puntuacion(analisis.ndmi), 2>>

\* f"{m:.1f}" of the non-negative quotient m[1] / m[2]: the nearest tenth
FormatoUnDecimal(m) ==
    LET decimas == (20 * m[1] + m[2]) \div (2 * m[2])
    IN  Str(decimas \div 10) \o <<".">> \o Str(decimas % 10)

\* r['prioridad'] raises KeyError for a recommendation without the key (542)
ResumenFalla(analisis) ==
    \E i \in 1..Len(analisis.recomendaciones) :
        "prioridad" \notin DOMAIN analisis.recomendaciones[i]

\* len([r for r in analisis['recomendaciones'] if r['prioridad'] == 'alta'])
RecomendacionesAltas(analisis) ==
    Len(SelectSeq(analisis.recomendaciones, LAMBDA r : r.prioridad = "alta"))

\* what the summary paragraph shows, or the KeyError the builder raises
_crear_resumen_ejecutivo(analisis) ==
    IF ResumenFalla(analisis)
    THEN [error |-> "KeyError", promedio_general |-> <<>>,
          puntuacion_general |-> <<>>, altas |-> 0]
    ELSE [error |-> "",
          promedio_general |-> PromedioGeneral(analisis),
          puntuacion_general |-> FormatoUnDecimal(PromedioGeneral(analisis)) \o <<"/10">>,
          altas |-> RecomendacionesAltas(analisis)]

-----------------------------------------------------------------------------
(***************************************************************************)
(* _crear_tabla_datos (811-851).  A metric value v stands for v / 1000.    *)
(***************************************************************************)
ND == <<"N", "/", "D">>

\* the digits of n, padded with zeros on the left to at least w digits
RECURSIVE StrAncho(_, _)
StrAncho(n, w) ==
    IF w <= 1 THEN Str(n) ELSE StrAncho(n \div 10, w - 1) \o <<Digito(n % 10)>>

\* v / 1000 rounded to the nearest tenth, a tie going to the even tenth
Decimas(v) ==
    LET q == v \div 100
        r == v % 100
    IN  IF r > 50 \/ (r = 50 /\ q % 2 = 1) THEN q + 1 ELSE q

\* f"{x:.3f}" and f"{x:.1f}" of the non-negative x = v / 1000
Formato(v, decimales) ==
    IF decimales = 3
    THEN Str(v \div 1000) \o <<".">> \o StrAncho(v % 1000, 3)
    ELSE Str(Decimas(v) \div 10) \o <<".">> \o Str(Decimas(v) % 10)

\* the absent metric formatted like a number: f"{dato.get(k) or 0:.nf}"
CeldaCeroPorAusente(valor, decimales) ==
    IF valor # None THEN Formato(valor[1], decimales) ELSE Formato(0, decimales)

\* f"{dato.get(k, 0):.nf}" if dato.get(k) else 'N/D' (lines 825-829)
Celda(valor, decimales) ==
    IF Truthy(valor) THEN Formato(valor[1], decimales) ELSE ND

\* the header row of line 820
Encabezado ==
    << <<"Periodo">>, <<"NDVI">>, <<"NDMI">>, <<"SAVI">>, <<"Temp (C)">>, <<"Precip (mm)">> >>

\* the row appended for one record (lines 823-830)
FilaDeTabla(dato) ==
    <<dato.periodo,
      Celda(dato.ndvi, 3), Celda(dato.ndmi, 3), Celda(dato.savi, 3),
      Celda(dato.temperatura, 1), Celda(dato.precipitacion, 1)>>

\* table_data (lines 820-830)
_crear_tabla_datos(datos) ==
    <<Encabezado>> \o [i \in 1..Len(datos) |-> FilaDeTabla(datos[i])]

-----------------------------------------------------------------------------
(***************************************************************************)
(* _crear_header_footer (483-511), the callback doc.build calls on every   *)
(* page with the page's canvas.  logo is what the callback meets at        *)
(* logo_path: no file ("ausente"), an image drawImage draws ("dibujable"), *)
(* or a file drawImage raises on ("falla").                                *)
(***************************************************************************)
Op(nombre, t) == [op |-> nombre, texto |-> t]

\* datetime.now().strftime('%d/%m/%Y') (line 509); the day is not modelled
FechaDeHoy == <<"dd", "/">> \o StrAncho(hoy.mes, 2) \o <<"/">> \o Str(hoy.anio)

\* lines 486-494: os.path.exists, drawImage, and the bare except
LogoOps(logo) ==
    IF logo = "dibujable" THEN <<Op("drawImage", <<"favicon.svg">>)>> ELSE <<>>

\* lines 497-509: the header title, the page number and the date
TextoOps(pagina) ==
    <<Op("setFont", <<"Helvetica 9">>),
      Op("setFillColor", <<"gris_oscuro">>),
      Op("drawString", <<"AgroTech - Analisis Satelital Agricola">>),
      Op("setFont", <<"Helvetica 9">>),
      Op("drawCentredString", <<"Pagina ">> \o Str(pagina)),
      Op("drawRightString", FechaDeHoy)>>

\* the callback with the call of drawImage outside any try: the exception
\* leaves the callback before anything else is drawn
OpsSinExcept(pagina, logo) ==
    IF logo = "falla"
    THEN <<Op("saveState", <<>>)>>
    ELSE <<Op("saveState", <<>>)>> \o LogoOps(logo) \o TextoOps(pagina)
            \o <<Op("restoreState", <<>>)>>

\* what one call of the callback does to the canvas, in order
OpsHeaderFooter(pagina, logo) ==
    <<Op("saveState", <<>>)>> \o LogoOps(logo) \o TextoOps(pagina)
        \o <<Op("restoreState", <<>>)>>

\* how many operations named nombre the sequence holds
Cuenta(ops, nombre) == Len(SelectSeq(ops, LAMBDA o : o.op = nombre))

-----------------------------------------------------------------------------
(***************************************************************************)
(* Inputs                                                                  *)
(***************************************************************************)
Tokens == {BR, BRS, BRO, <<" ">>, <<"\n">>, <<"x">>, <<"/">>, <<">">>}

RECURSIVE TextosDe(_)
TextosDe(n) ==
    IF n = 0 THEN {<<>>}
    ELSE LET prev == TextosDe(n - 1)
         IN  prev \cup {t \o k : t \in prev, k \in Tokens}

\* concatenations of at most MaxTokens tokens
Textos == TextosDe(MaxTokens)

\* s contains pat somewhere
Contains(s, pat) == \E i \in 1..Len(s) : MatchAt(s, i, pat)

\* s contains '<br>', optional whitespace, '<br>'
HasAdjacentRawBreaks(s) ==
    \E i \in 1..Len(s) : MatchAt(s, i, BR) /\ MatchAt(s, SkipWs(s, i + 4), BR)

\* the months a stored row can be of, and the dates a request is made on
Periodos == {[anio |-> 2023, mes |-> 11], [anio |-> 2023, mes |-> 12],
             [anio |-> 2024, mes |-> 1], [anio |-> 2024, mes |-> 2]}

Hoys == {[anio |-> 2024, mes |-> 1], [anio |-> 2024, mes |-> 2]}

Fila(p, v) ==
    [anio                 |-> p.anio,
     mes                  |-> p.mes,
     ndvi_promedio        |-> v.ndvi,
     ndmi_promedio        |-> v.ndmi,
     savi_promedio        |-> v.savi,
     temperatura_promedio |-> v.temperatura,
     precipitacion_total  |-> v.precipitacion]

\* the metric values of a stored row of a request
ValoresFila ==
    {[ndvi |-> n, ndmi |-> Some(3), savi |-> s,
      temperatura |-> Some(20), precipitacion |-> None] :
        n \in {None, Some(5)}, s \in {None, Some(0), Some(4)}}

\* the metric values of a record of a series rendered on its own
ValoresSerie ==
    {[ndvi |-> n, ndmi |-> Some(3), savi |-> s,
      temperatura |-> Some(20), precipitacion |-> None] :
        n \in {None, Some(2), Some(4), Some(6)}, s \in {None, Some(0), Some(4)}}

\* query results of n rows: the months 2023-01.. in order, any values
SeriesDe(n) ==
    {[i \in 1..n |-> Fila([anio |-> 2023, mes |-> i], f[i])] :
        f \in [1..n -> ValoresSerie]}

Series == UNION {SeriesDe(n) : n \in 1..MaxSerie}

\* the free text of a recommendation: plain, or holding a raw line break
TextosRec == {<<"a">>, <<"a">> \o BR \o <<"b">>}

\* the priorities a recommendation arrives with; "falta" is the missing key
PrioridadesRec == {"alta", "media", "baja", "urgente", "falta"}

\* the i-th recommendation of a list: its title names its position
Recomendacion(i, prioridad, t) ==
    LET acciones == [k \in 1..(IF Len(t) = 1 THEN 1 ELSE 6) |-> t]
    IN  IF prioridad = "falta"
        THEN [titulo |-> <<"R", Digito(i)>>,
              descripcion_tecnica |-> t, descripcion_simple |-> t,
              acciones |-> acciones,
              impacto_esperado |-> t, tiempo_implementacion |-> t]
        ELSE [titulo |-> <<"R", Digito(i)>>, prioridad |-> prioridad,
              descripcion_tecnica |-> t, descripcion_simple |-> t,
              acciones |-> acciones,
              impacto_esperado |-> t, tiempo_implementacion |-> t]

ListasDeRecs(n) ==
    {[i \in 1..n |-> Recomendacion(i, f[i][1], f[i][2])] :
        f \in [1..n -> PrioridadesRec \X TextosRec]}

\* what GeneradorRecomendaciones.generar_recomendaciones can return
Recomendaciones == UNION {ListasDeRecs(n) : n \in 0..MaxRecs}

\* an analysis bundle as _ejecutar_analisis returns it, the analyzers'
\* results carrying their scores
Bundle(ndvi, ndmi, savi, recomendaciones) ==
    [ndvi            |-> ndvi,
     ndmi            |-> ndmi,
     savi            |-> savi,
     tendencias      |-> ResultadoAnalizador("tendencias"),
     recomendaciones |-> recomendaciones]

\* what an analyzer returns: a score in 0..10, or no 'puntuacion' key
ResultadosDe(indice) ==
    {[indice |-> indice, puntuacion |-> p] : p \in 0..10}
        \cup {ResultadoAnalizador(indice)}

\* the metric values of a record handed to the data table: every metric
\* present, or one of them absent or zero, or all absent, or all zero
ValoresPresentes ==
    [ndvi |-> Some(650), ndmi |-> Some(300), savi |-> Some(400),
     temperatura |-> Some(20500), precipitacion |-> Some(12300)]

ValoresTabla ==
    {[ValoresPresentes EXCEPT ![k] = v] :
        k \in DOMAIN ValoresPresentes, v \in {None, Some(0)}}
      \cup {ValoresPresentes}
      \cup {[k \in DOMAIN ValoresPresentes |-> v] : v \in {None, Some(0)}}

SeriesTablaDe(n) ==
    {[i \in 1..n |-> Fila([anio |-> 2023, mes |-> i], f[i])] :
        f \in [1..n -> ValoresTabla]}

SeriesTabla == UNION {SeriesTablaDe(n) : n \in 1..MaxTabla}

\* the dates a period is computed for on its own: every month of a year
HoysPeriodo == {[anio |-> 2024, mes |-> m] : m \in 1..12}

\* what the callback can meet at logo_path
Logos == {"ausente", "dibujable", "falla"}

\* the bundles handed to the summary and recommendation builders: any list
\* of recommendations, and any scores with SAVI analysed or not
Bundles ==
    {Bundle([indice |-> "ndvi", puntuacion |-> 8],
            [indice |-> "ndmi", puntuacion |-> 6], None, recs) :
        recs \in Recomendaciones}
      \cup {Bundle(n, m, sv, <<>>) :
              n \in ResultadosDe("ndvi"), m \in ResultadosDe("ndmi"),
              sv \in {None} \cup {Some(r) : r \in ResultadosDe("savi")}}

-----------------------------------------------------------------------------
(***************************************************************************)
(* Initial states                                                          *)
(***************************************************************************)
LimpiarSinUso ==
    /\ texto = <<>>
    /\ salida1 = <<>>
    /\ salida2 = <<>>
    /\ pasadas = 0

BDSinUso ==
    /\ parcelaBD = "activa"
    /\ indicesBD = {}
    /\ hoy = [anio |-> 2024, mes |-> 1]
    /\ meses_atras = 0

InformeEn(inicio) ==
    /\ pc = inicio
    /\ error = ""
    /\ fecha_inicio = <<>>
    /\ indices = <<>>
    /\ datos_analisis = <<>>
    /\ invocados = {}
    /\ analisis_completo = <<>>
    /\ graficos = <<>>
    /\ directorio = FALSE
    /\ story = <<>>
    /\ archivo = "ausente"

SinUso == [g |-> "sin_uso", paso |-> "sin_uso"]

SeccionesSinUso ==
    /\ resumen = <<>>
    /\ seccion_recs = <<>>
    /\ tabla = <<>>

PaginasSinUso ==
    /\ paginas = <<>>
    /\ pila_canvas = 0

PyplotEn(inicio) ==
    /\ ajenas = {}
    /\ Gcf = <<>>
    /\ lienzos = <<>>
    /\ hiloPc = [t \in 1..NumSolicitudes |-> inicio]
    /\ hiloFig = [t \in 1..NumSolicitudes |-> 0]
    /\ bufferes = [t \in 1..NumSolicitudes |-> <<>>]

InitLimpiar ==
    /\ texto \in Textos
    /\ salida1 = <<>>
    /\ salida2 = <<>>
    /\ pasadas = 0
    /\ BDSinUso
    /\ InformeEn("sin_uso")
    /\ PyplotEn(SinUso)
    /\ SeccionesSinUso
    /\ PaginasSinUso

\* a request: any parcel state, any stored rows not later than today
Init ==
    /\ LimpiarSinUso
    /\ parcelaBD \in {"activa", "inactiva", "ausente"}
    /\ hoy \in Hoys
    /\ meses_atras \in 0..MaxMesesAtras
    /\ \E P \in SUBSET Periodos :
          /\ Cardinality(P) <= MaxFilas
          /\ \A p \in P : ~Antes(hoy, p)
          /\ parcelaBD = "ausente" => P = {}
          /\ \E f \in [P -> ValoresFila] : indicesBD = {Fila(p, f[p]) : p \in P}
    /\ InformeEn("obtener_parcela")
    /\ PyplotEn(SinUso)
    /\ SeccionesSinUso
    /\ PaginasSinUso

\* a query result handed to the preparer, the analyzers and the renderers
InitSeries ==
    /\ LimpiarSinUso
    /\ BDSinUso
    /\ pc = "preparar"
    /\ error = ""
    /\ fecha_inicio = <<>>
    /\ indices \in Series
    /\ datos_analisis = <<>>
    /\ invocados = {}
    /\ analisis_completo = <<>>
    /\ graficos = <<>>
    /\ directorio = FALSE
    /\ story = <<>>
    /\ archivo = "ausente"
    /\ PyplotEn(SinUso)
    /\ SeccionesSinUso
    /\ PaginasSinUso

\* a request for an active parcel, made in any month with any lookback; the
\* parcel has no stored row, or one row for the current month
InitPeriodo ==
    /\ LimpiarSinUso
    /\ parcelaBD = "activa"
    /\ hoy \in HoysPeriodo
    /\ meses_atras \in 0..MaxMesesPeriodo
    /\ indicesBD \in {{}, {Fila(hoy, ValoresPresentes)}}
    /\ InformeEn("obtener_indices")
    /\ PyplotEn(SinUso)
    /\ SeccionesSinUso
    /\ PaginasSinUso

\* an analysis bundle handed to the summary and recommendation builders
InitSecciones ==
    /\ LimpiarSinUso
    /\ BDSinUso
    /\ pc = "secciones"
    /\ error = ""
    /\ fecha_inicio = <<>>
    /\ indices = <<>>
    /\ datos_analisis = <<>>
    /\ invocados = {}
    /\ \E b \in Bundles : analisis_completo = <<b>>
    /\ graficos = <<>>
    /\ directorio = FALSE
    /\ story = <<>>
    /\ archivo = "ausente"
    /\ PyplotEn(SinUso)
    /\ SeccionesSinUso
    /\ PaginasSinUso

\* a query result handed to the preparer and then to the data table builder
InitTabla ==
    /\ LimpiarSinUso
    /\ BDSinUso
    /\ pc = "preparar"
    /\ error = ""
    /\ fecha_inicio = <<>>
    /\ indices \in SeriesTabla
    /\ datos_analisis = <<>>
    /\ invocados = {}
    /\ analisis_completo = <<>>
    /\ graficos = <<>>
    /\ directorio = FALSE
    /\ story = <<>>
    /\ archivo = "ausente"
    /\ PyplotEn(SinUso)
    /\ SeccionesSinUso
    /\ PaginasSinUso

-----------------------------------------------------------------------------
(***************************************************************************)
(* The sanitizer applied to a free-text field                              *)
(***************************************************************************)
Limpiar ==
    /\ pasadas = 0
    /\ salida1' = limpiar_html_para_reportlab(texto)
    /\ pasadas' = 1
    /\ UNCHANGED <<texto, salida2, restoLimpiar>>

\* the sanitized text is sanitized again
LimpiarDeNuevo ==
    /\ pasadas = 1
    /\ salida2' = limpiar_html_para_reportlab(salida1)
    /\ pasadas' = 2
    /\ UNCHANGED <<texto, salida1, restoLimpiar>>

-----------------------------------------------------------------------------
(***************************************************************************)
(* generar_informe_completo, statement by statement (164-273)              *)
(***************************************************************************)
Falla(e) ==
    /\ pc' = "error"
    /\ error' = e

\* lines 179-182: Parcela.objects.get(id=parcela_id, activa=True)
ObtenerParcela ==
    /\ pc = "obtener_parcela"
    /\ IF parcelaBD = "activa"
       THEN pc' = "obtener_indices" /\ error' = error
       ELSE Falla("ValueError: parcela no encontrada")
    /\ UNCHANGED <<fecha_inicio, indices, datos_analisis, invocados,
                   analisis_completo, graficos, directorio, story, archivo>>
    /\ UNCHANGED restoInforme

\* lines 185-203: the period, the query and the exists() check
ObtenerIndices ==
    /\ pc = "obtener_indices"
    /\ LET fi == RetrocederMeses([anio |-> hoy.anio, mes |-> hoy.mes], meses_atras)
           q  == FiltrarIndices(indicesBD, fi, hoy)
       IN  /\ fecha_inicio' = <<fi>>
           /\ indices' = q
           /\ IF q = <<>>
              THEN Falla("ValueError: no hay datos disponibles")
              ELSE pc' = "preparar" /\ error' = error
    /\ UNCHANGED <<datos_analisis, invocados, analisis_completo, graficos,
                   directorio, story, archivo>>
    /\ UNCHANGED restoInforme

\* line 206
PrepararDatos ==
    /\ pc = "preparar"
    /\ datos_analisis' = _preparar_datos_analisis(indices)
    /\ pc' = "analizar"
    /\ UNCHANGED <<error, fecha_inicio, indices, invocados, analisis_completo,
                   graficos, directorio, story, archivo>>
    /\ UNCHANGED restoInforme

\* line 209, every analyzer returning
EjecutarAnalisis ==
    /\ pc = "analizar"
    /\ invocados' = AnalizadoresInvocados(datos_analisis)
    /\ analisis_completo' = <<_ejecutar_analisis(datos_analisis)>>
    /\ pc' = "graficar"
    /\ UNCHANGED <<error, fecha_inicio, indices, datos_analisis, graficos,
                   directorio, story, archivo>>
    /\ UNCHANGED restoInforme

\* line 209, the first analyzer (line 300) raising
AnalizadorFalla ==
    /\ pc = "analizar"
    /\ invocados' = {"ndvi"}
    /\ Falla("analizador")
    /\ UNCHANGED <<fecha_inicio, indices, datos_analisis, analisis_completo,
                   graficos, directorio, story, archivo>>
    /\ UNCHANGED restoInforme

\* line 212: both charts, or the TypeError of lines 376-377
GenerarGraficos ==
    /\ pc = "graficar"
    /\ IF ComparativoFalla(datos_analisis)
       THEN Falla("TypeError: unsupported operand") /\ graficos' = graficos
       ELSE /\ graficos' = <<_generar_graficos(datos_analisis)>>
            /\ pc' = "crear_directorio"
            /\ error' = error
    /\ UNCHANGED <<fecha_inicio, indices, datos_analisis, invocados,
                   analisis_completo, directorio, story, archivo>>
    /\ UNCHANGED restoInforme

\* lines 215-230: the output path, os.makedirs, SimpleDocTemplate(output_path)
CrearDirectorio ==
    /\ pc = "crear_directorio"
    /\ directorio' = TRUE
    /\ pc' = "armar_story"
    /\ UNCHANGED <<error, fecha_inicio, indices, datos_analisis, invocados,
                   analisis_completo, graficos, story, archivo>>
    /\ UNCHANGED restoInforme

\* lines 233-267: the story is built section by section; the summary (240),
\* the recommendations (263) and the data table (267) are kept as built
ArmarStory ==
    /\ pc = "armar_story"
    /\ LET r == _crear_resumen_ejecutivo(analisis_completo[1])
           s == _crear_seccion_recomendaciones(analisis_completo[1].recomendaciones)
       IN  IF r.error # ""
           THEN /\ Falla(r.error)
                /\ UNCHANGED <<story, resumen, seccion_recs, tabla>>
           ELSE IF s.error # ""
           THEN /\ Falla(s.error)
                /\ resumen' = <<r>>
                /\ UNCHANGED <<story, seccion_recs, tabla>>
           ELSE /\ story' = ArmarStoryDe(analisis_completo[1])
                /\ resumen' = <<r>>
                /\ seccion_recs' = <<s>>
                /\ tabla' = _crear_tabla_datos(datos_analisis)
                /\ pc' = "construir_pdf"
                /\ error' = error
    /\ UNCHANGED <<fecha_inicio, indices, datos_analisis, invocados,
                   analisis_completo, graficos, directorio, archivo>>
    /\ UNCHANGED restoSecciones

\* lines 233-267, a section builder raising on what a collaborator returned
ConstructorFalla ==
    /\ pc = "armar_story"
    /\ Falla("constructor de seccion")
    /\ UNCHANGED <<fecha_inicio, indices, datos_analisis, invocados,
                   analisis_completo, graficos, directorio, story, archivo>>
    /\ UNCHANGED restoInforme

\* lines 270-273: doc.build lays the story out and writes output_path itself
ConstruirPDF ==
    /\ pc = "construir_pdf"
    /\ archivo' = "completo"
    /\ pc' = "hecho"
    /\ UNCHANGED <<error, fecha_inicio, indices, datos_analisis, invocados,
                   analisis_completo, graficos, directorio, story>>
    /\ UNCHANGED restoInforme

\* line 270: doc.build raising while it lays the story out
MaquetadoFalla ==
    /\ pc = "construir_pdf"
    /\ Falla("doc.build: maquetado")
    /\ UNCHANGED <<fecha_inicio, indices, datos_analisis, invocados,
                   analisis_completo, graficos, directorio, story, archivo>>
    /\ UNCHANGED restoInforme

\* line 270: doc.build raising while it writes the file it opened at
\* output_path; nothing removes what was written (no handler, no temporary)
EscrituraFalla ==
    /\ pc = "construir_pdf"
    /\ archivo' = "parcial"
    /\ Falla("doc.build: escritura")
    /\ UNCHANGED <<fecha_inicio, indices, datos_analisis, invocados,
                   analisis_completo, graficos, directorio, story>>
    /\ UNCHANGED restoInforme

-----------------------------------------------------------------------------
(***************************************************************************)
(* _generar_graficos called by several report generations at once          *)
(* (320-407).  plt.subplots, plt.xticks, plt.tight_layout, plt.savefig     *)
(* and plt.close go through pyplot's process-wide figure registry: the     *)
(* last four act on whatever figure is current when they run.  Each        *)
(* statement is one step of its thread.                                    *)
(***************************************************************************)
Solicitudes == 1..NumSolicitudes

\* the statements of one call, in order
Programa ==
    << [g |-> "evo", paso |-> "subplots"],
       [g |-> "evo", paso |-> "dibujar"],
       [g |-> "evo", paso |-> "xticks"],
       [g |-> "evo", paso |-> "tight_layout"],
       [g |-> "evo", paso |-> "savefig"],
       [g |-> "evo", paso |-> "close"],
       [g |-> "cmp", paso |-> "subplots"],
       [g |-> "cmp", paso |-> "dibujar"],
       [g |-> "cmp", paso |-> "tight_layout"],
       [g |-> "cmp", paso |-> "savefig"],
       [g |-> "cmp", paso |-> "close"],
       [g |-> "fin", paso |-> "fin"] >>

Siguiente(p) ==
    Programa[(CHOOSE i \in 1..Len(Programa) : Programa[i] = p) + 1]

En(t, paso) == hiloPc[t].paso = paso

Avanza(t) == hiloPc' = [hiloPc EXCEPT ![t] = Siguiente(@)]

Trazo(t, op) == [hilo |-> t, g |-> hiloPc[t].g, op |-> op]

\* plt.gcf(): the current figure, a new empty one when none is managed
GcfTrasGcf == IF Gcf = <<>> THEN <<Len(lienzos) + 1>> ELSE Gcf

LienzosTrasGcf == IF Gcf = <<>> THEN Append(lienzos, <<>>) ELSE lienzos

Actual == GcfTrasGcf[Len(GcfTrasGcf)]

Anota(t, op) ==
    ajenas' = IF Actual = hiloFig[t] THEN ajenas
              ELSE ajenas \cup {[hilo |-> t, g |-> hiloPc[t].g, op |-> op]}

\* fig, ax = plt.subplots(...) (334, 373): a new figure, made current
Subplots(t) ==
    /\ En(t, "subplots")
    /\ lienzos' = Append(lienzos, <<>>)
    /\ Gcf' = Append(Gcf, Len(lienzos) + 1)
    /\ hiloFig' = [hiloFig EXCEPT ![t] = Len(lienzos) + 1]
    /\ Avanza(t)
    /\ UNCHANGED <<bufferes, ajenas>>
    /\ UNCHANGED restoPyplot

\* ax.plot, ax.bar, ax.set_*, ax.legend, ax.grid (337-357, 375-398): on the
\* call's own axes
Dibujar(t) ==
    /\ En(t, "dibujar")
    /\ lienzos' = [lienzos EXCEPT ![hiloFig[t]] = Append(@, Trazo(t, "dibujar"))]
    /\ Avanza(t)
    /\ UNCHANGED <<Gcf, hiloFig, bufferes, ajenas>>
    /\ UNCHANGED restoPyplot

\* plt.xticks(rotation=45, ha='right') (360): on the current figure's axes
Xticks(t) ==
    /\ En(t, "xticks")
    /\ Gcf' = GcfTrasGcf
    /\ lienzos' = [LienzosTrasGcf EXCEPT ![Actual] = Append(@, Trazo(t, "xticks"))]
    /\ Anota(t, "xticks")
    /\ Avanza(t)
    /\ UNCHANGED <<hiloFig, bufferes>>
    /\ UNCHANGED restoPyplot

\* plt.tight_layout() (361, 400): on the current figure
TightLayout(t) ==
    /\ En(t, "tight_layout")
    /\ Gcf' = GcfTrasGcf
    /\ lienzos' = [LienzosTrasGcf EXCEPT ![Actual] = Append(@, Trazo(t, "tight_layout"))]
    /\ Anota(t, "tight_layout")
    /\ Avanza(t)
    /\ UNCHANGED <<hiloFig, bufferes>>
    /\ UNCHANGED restoPyplot

\* buffer = BytesIO(); plt.savefig(buffer, ...) (364-366, 402-404): the
\* current figure is the one saved
BufferGuardado(t) ==
    [g |-> hiloPc[t].g, propia |-> hiloFig[t], figura |-> Actual,
     contenido |-> LienzosTrasGcf[Actual]]

Savefig(t) ==
    /\ En(t, "savefig")
    /\ Gcf' = GcfTrasGcf
    /\ lienzos' = LienzosTrasGcf
    /\ bufferes' = [bufferes EXCEPT ![t] = Append(@, BufferGuardado(t))]
    /\ Anota(t, "savefig")
    /\ Avanza(t)
    /\ UNCHANGED hiloFig
    /\ UNCHANGED restoPyplot

\* plt.close() (367, 405): the current figure, when there is one, is destroyed
Close(t) ==
    /\ En(t, "close")
    /\ Gcf' = IF Gcf = <<>> THEN Gcf ELSE SubSeq(Gcf, 1, Len(Gcf) - 1)
    /\ ajenas' = IF Gcf = <<>> \/ Gcf[Len(Gcf)] = hiloFig[t] THEN ajenas
                 ELSE ajenas \cup {[hilo |-> t, g |-> hiloPc[t].g, op |-> "close"]}
    /\ Avanza(t)
    /\ UNCHANGED <<lienzos, hiloFig, bufferes>>
    /\ UNCHANGED restoPyplot

-----------------------------------------------------------------------------
(***************************************************************************)
(* The section builders applied to a bundle or a series on their own       *)
(***************************************************************************)
\* line 240: _crear_resumen_ejecutivo(analisis_completo)
CrearResumenEjecutivo ==
    /\ pc = "secciones"
    /\ resumen = <<>>
    /\ resumen' = <<_crear_resumen_ejecutivo(analisis_completo[1])>>
    /\ UNCHANGED <<seccion_recs, tabla>>
    /\ UNCHANGED <<varsInforme, restoSecciones>>

\* line 263: _crear_seccion_recomendaciones(analisis_completo['recomendaciones'])
CrearSeccionRecomendaciones ==
    /\ pc = "secciones"
    /\ seccion_recs = <<>>
    /\ seccion_recs' =
          <<_crear_seccion_recomendaciones(analisis_completo[1].recomendaciones)>>
    /\ UNCHANGED <<resumen, tabla>>
    /\ UNCHANGED <<varsInforme, restoSecciones>>

\* line 267: _crear_tabla_datos(datos_analisis), on the prepared records
CrearTablaDatos ==
    /\ pc = "analizar"
    /\ tabla = <<>>
    /\ tabla' = _crear_tabla_datos(datos_analisis)
    /\ UNCHANGED <<resumen, seccion_recs>>
    /\ UNCHANGED <<varsInforme, restoSecciones>>

-----------------------------------------------------------------------------
(***************************************************************************)
(* doc.build calling the page callbacks (270-271)                          *)
(***************************************************************************)
\* the document is about to be laid out
InitPaginas ==
    /\ LimpiarSinUso
    /\ BDSinUso
    /\ InformeEn("construir_pdf")
    /\ PyplotEn(SinUso)
    /\ SeccionesSinUso
    /\ PaginasSinUso

\* one call of _crear_header_footer(canvas_obj, doc) with doc.page = pagina
CrearHeaderFooter(pagina, logo) ==
    LET ops == OpsHeaderFooter(pagina, logo)
    IN  /\ paginas' = Append(paginas, [logo |-> logo, ops |-> ops])
        /\ pila_canvas' = pila_canvas + Cuenta(ops, "saveState")
                             - Cuenta(ops, "restoreState")
        /\ UNCHANGED restoPaginas

\* onFirstPage=self._crear_header_footer (line 270)
OnFirstPage ==
    /\ pc = "construir_pdf"
    /\ paginas = <<>>
    /\ \E logo \in Logos : CrearHeaderFooter(1, logo)

\* onLaterPages=self._crear_header_footer (line 271)
OnLaterPages ==
    /\ pc = "construir_pdf"
    /\ paginas # <<>>
    /\ Len(paginas) < MaxPaginas
    /\ \E logo \in Logos : CrearHeaderFooter(Len(paginas) + 1, logo)

InitConcurrente ==
    /\ LimpiarSinUso
    /\ BDSinUso
    /\ InformeEn("sin_uso")
    /\ PyplotEn(Programa[1])
    /\ SeccionesSinUso
    /\ PaginasSinUso

-----------------------------------------------------------------------------
(***************************************************************************)
(* Specifications                                                          *)
(***************************************************************************)
NextLimpiar == Limpiar \/ LimpiarDeNuevo

SpecLimpiar == InitLimpiar /\ [][NextLimpiar]_vars

Next ==
    \/ ObtenerParcela
    \/ ObtenerIndices
    \/ PrepararDatos
    \/ EjecutarAnalisis
    \/ AnalizadorFalla
    \/ GenerarGraficos
    \/ CrearDirectorio
    \/ ArmarStory
    \/ ConstructorFalla
    \/ ConstruirPDF
    \/ MaquetadoFalla
    \/ EscrituraFalla

Spec == Init /\ [][Next]_vars

NextSeries == PrepararDatos \/ EjecutarAnalisis \/ AnalizadorFalla \/ GenerarGraficos

SpecSeries == InitSeries /\ [][NextSeries]_vars

NextSecciones == CrearResumenEjecutivo \/ CrearSeccionRecomendaciones

SpecSecciones == InitSecciones /\ [][NextSecciones]_vars

NextTabla == PrepararDatos \/ CrearTablaDatos

SpecTabla == InitTabla /\ [][NextTabla]_vars

NextPaginas == OnFirstPage \/ OnLaterPages

NextPeriodo == ObtenerIndices

SpecPeriodo == InitPeriodo /\ [][NextPeriodo]_vars

SpecPaginas == InitPaginas /\ [][NextPaginas]_vars

NextConcurrente ==
    \E t \in Solicitudes :
        \/ Subplots(t)
        \/ Dibujar(t)
        \/ Xticks(t)
        \/ TightLayout(t)
        \/ Savefig(t)
        \/ Close(t)

SpecConcurrente == InitConcurrente /\ [][NextConcurrente]_vars

-----------------------------------------------------------------------------
\* C1: the sanitizer is idempotent: sanitizing the sanitized text again
\* gives the sanitized text, for every input text.
C1_Idempotent == pasadas = 2 => salida2 = salida1

\* a text with breaks and whitespace that the first pass changed, sanitized twice
C1_Witness ==
    /\ pasadas = 2
    /\ HasAdjacentRawBreaks(texto)
    /\ \E i \in 1..Len(texto) : IsWs(texto[i])
    /\ salida1 # texto

\* C2: for a text containing adjacent raw break markers the output holds no
\* raw '<br>', every '<br' of the output continues as the self-closing form,
\* and the adjacent pair has become '<br/><br/>'.
C2_NoRawBreak ==
    (pasadas >= 1 /\ HasAdjacentRawBreaks(texto)) =>
        /\ ~Contains(salida1, BR)
        /\ \A i \in 1..Len(salida1) :
               MatchAt(salida1, i, BRO) => MatchAt(salida1, i + 3, <<"/">>)
        /\ Contains(salida1, BRS \o BRS)

\* adjacent raw breaks separated by whitespace, followed by a third break
C2_Witness ==
    /\ pasadas >= 1
    /\ texto = BR \o <<" ">> \o BR \o BR
    /\ salida1 = BRS \o BRS \o BRS

-----------------------------------------------------------------------------
(***************************************************************************)
(* What the claims speak of                                                *)
(***************************************************************************)
\* months since year 0, for comparing periods
IndiceDeMes(p) == p.anio * 12 + p.mes

\* the row lies in the requested period: the meses_atras months before the
\* current month, and the current month
EnRango(r) ==
    /\ IndiceDeMes(r) >= IndiceDeMes(hoy) - meses_atras
    /\ IndiceDeMes(r) <= IndiceDeMes(hoy)

SinFilasEnRango == \A r \in indicesBD : ~EnRango(r)

\* nothing of the report has been started
NadaHecho ==
    /\ invocados = {}
    /\ analisis_completo = <<>>
    /\ graficos = <<>>
    /\ ~directorio
    /\ story = <<>>
    /\ archivo = "ausente"

\* the story as the names of its sections and separators
Etiquetas(st) ==
    [i \in 1..Len(st) |-> IF st[i].tipo = "contenido" THEN st[i].seccion ELSE st[i].tipo]

HaySaviPresente(datos) == \E i \in 1..Len(datos) : datos[i].savi # None

PresentesSavi(datos) == SelectSeq(datos, LAMBDA d : d.savi # None)

-----------------------------------------------------------------------------
\* C3: for a parcel that is missing or inactive, or that has no monthly row
\* in the requested period, the request ends in an error and never gets past
\* the query: no analyzer is invoked, no chart is rendered, the output
\* directory is not created, no story is built and no file is written.
C3_ErrorAntesDeTodo ==
    (parcelaBD # "activa" \/ SinFilasEnRango) =>
        /\ pc \in {"obtener_parcela", "obtener_indices", "error"}
        /\ NadaHecho

\* C4: a request completes fully or exposes nothing: whenever it has failed
\* nothing is visible at output_path, and a file is visible there only once
\* every step has succeeded.
C4_TodoONada ==
    /\ pc = "error" => archivo = "ausente"
    /\ archivo # "ausente" => pc = "hecho"

\* C5: under any interleaving of concurrent chart renderings, every buffer
\* holds the figure its own call created, with exactly that call's drawing,
\* and no call draws on, saves or closes another call's figure.
C5_FiguraPropia ==
    /\ ajenas = {}
    /\ \A t \in Solicitudes : \A k \in 1..Len(bufferes[t]) :
          /\ bufferes[t][k].figura = bufferes[t][k].propia
          /\ \A j \in 1..Len(bufferes[t][k].contenido) :
                /\ bufferes[t][k].contenido[j].hilo = t
                /\ bufferes[t][k].contenido[j].g = bufferes[t][k].g
          /\ \E j \in 1..Len(bufferes[t][k].contenido) :
                bufferes[t][k].contenido[j].op = "dibujar"

\* C6: the story of a successful generation is cover, break, executive
\* summary, break, parcel info, spacing, NDVI, break, NDMI, break, then SAVI
\* and a break exactly when the bundle holds a SAVI result, then trends,
\* break, recommendations, break, data table; it does not end with a page
\* break and holds no two consecutive page breaks.
C6_OrdenDeSecciones ==
    pc = "hecho" =>
        /\ Etiquetas(story) =
              <<"portada", "PageBreak", "resumen_ejecutivo", "PageBreak",
                "info_parcela", "Spacer", "ndvi", "PageBreak", "ndmi", "PageBreak">>
              \o (IF analisis_completo[1].savi # None
                  THEN <<"savi", "PageBreak">> ELSE <<>>)
              \o <<"tendencias", "PageBreak", "recomendaciones", "PageBreak",
                   "tabla_datos">>
        /\ story[Len(story)] # PageBreak
        /\ \A i \in 1..(Len(story) - 1) :
               ~(story[i] = PageBreak /\ story[i + 1] = PageBreak)

\* a finished report with a SAVI section
C6_Witness ==
    /\ pc = "hecho"
    /\ analisis_completo[1].savi # None
    /\ \E i \in 1..Len(story) : story[i].seccion = "savi"

\* C7: for a non-empty series without any present SAVI value the bundle's
\* SAVI result is None, the time-series chart has no SAVI line, and the
\* story has no SAVI section and only the six page breaks of the other
\* sections.
C7_SinSeccionSavi ==
    (datos_analisis # <<>> /\ ~HaySaviPresente(datos_analisis)) =>
        /\ analisis_completo # <<>> => analisis_completo[1].savi = None
        /\ graficos # <<>> =>
              \A i \in 1..Len(graficos[1].evolucion_temporal.lineas) :
                  graficos[1].evolucion_temporal.lineas[i] # "savi"
        /\ story # <<>> =>
              /\ \A i \in 1..Len(story) : story[i].seccion # "savi"
              /\ Cardinality({i \in 1..Len(story) : story[i] = PageBreak}) = 6

\* a finished report over rows none of which has a SAVI value
C7_Witness ==
    /\ pc = "hecho"
    /\ datos_analisis # <<>>
    /\ ~HaySaviPresente(datos_analisis)

\* C8: the NDVI and NDMI analyzers are invoked for every series, the SAVI
\* analyzer exactly when some record has a present SAVI value (zero
\* included), and without a present SAVI value the bundle's SAVI is None.
C8_SaviSiHayPresente ==
    analisis_completo # <<>> =>
        /\ {"ndvi", "ndmi"} \subseteq invocados
        /\ "savi" \in invocados <=> HaySaviPresente(datos_analisis)
        /\ ~HaySaviPresente(datos_analisis) => analisis_completo[1].savi = None

\* C9: when the comparative chart is rendered, its SAVI bar is the mean of
\* exactly the present SAVI values (zeros counted), and zero when no record
\* has one.
C9_BarraSavi ==
    graficos # <<>> =>
        LET barra == graficos[1].comparativo.valores[3]
            pres  == PresentesSavi(datos_analisis)
        IN  IF Len(pres) > 0
            THEN barra[1] * Len(pres) = Suma(pres, "savi") * barra[2]
            ELSE barra[1] = 0

\* C10: for every series, once the chart step has run, the time-series
\* chart has one NDVI point per record, in the records' order and against
\* their period labels, and the comparative chart's NDVI bar is the sum of
\* the NDVI values divided by the number of records.
C10_PuntosYBarraNdvi ==
    (pc = "crear_directorio" \/ (pc = "error" /\ error # "analizador")) =>
        /\ graficos # <<>>
        /\ Len(graficos[1].evolucion_temporal.ndvi) = Len(indices)
        /\ \A i \in 1..Len(indices) :
              /\ graficos[1].evolucion_temporal.ndvi[i] = indices[i].ndvi_promedio
              /\ graficos[1].evolucion_temporal.meses[i] = PeriodoTexto(indices[i])
        /\ graficos[1].comparativo.valores[1][2] = Len(indices)
        /\ graficos[1].comparativo.valores[1][1]
              = SumSeq([i \in 1..Len(indices) |-> indices[i].ndvi_promedio[1]])

\* the recommendations handed to the section builders
RecsDeEntrada == analisis_completo[1].recomendaciones

\* the blocks of the recommendations section, in rendering order
Bloques == SelectSeq(seccion_recs[1].elements, LAMBDA e : e.tipo = "Table")

\* where a rendered recommendation stands in the input list
PosEnEntrada(rec) == CHOOSE i \in 1..Len(RecsDeEntrada) : RecsDeEntrada[i] = rec

\* the rank of a priority group: alta 1, media 2, baja 3
RangoDe(prioridad) ==
    CHOOSE g \in 1..Len(OrdenPrioridades) : OrdenPrioridades[g] = prioridad

PrioridadesPresentes(permitidas) ==
    \A i \in 1..Len(RecsDeEntrada) :
        /\ "prioridad" \in DOMAIN RecsDeEntrada[i]
        /\ RecsDeEntrada[i].prioridad \in permitidas

\* C11: for every list of recommendations whose priorities are alta, media
\* or baja, the section is built, the numbers displayed in its blocks are
\* strictly increasing in rendering order (hence unique), every block of a
\* higher priority comes before every block of a lower one, and blocks of
\* the same priority keep the order their recommendations had in the input.
C11_NumeracionYOrden ==
    (seccion_recs # <<>> /\ PrioridadesPresentes({"alta", "media", "baja"})) =>
        /\ seccion_recs[1].error = ""
        /\ \A i \in 1..Len(Bloques) :
              /\ Bloques[i].rec_data[1]
                    = <<"<strong>">> \o Str(Bloques[i].numero) \o <<".", " ">>
                         \o Bloques[i].rec.titulo \o <<"</strong>">>
              /\ Bloques[i].seccion = Bloques[i].rec.prioridad
        /\ \A i, j \in 1..Len(Bloques) :
              i < j =>
                /\ Bloques[i].numero < Bloques[j].numero
                /\ RangoDe(Bloques[i].seccion) <= RangoDe(Bloques[j].seccion)
                /\ Bloques[i].seccion = Bloques[j].seccion
                      => PosEnEntrada(Bloques[i].rec) < PosEnEntrada(Bloques[j].rec)

\* a low recommendation given first and two high ones after it were rendered
C11_Witness ==
    /\ seccion_recs # <<>>
    /\ Len(RecsDeEntrada) = 3
    /\ PrioridadesPresentes({"alta", "media", "baja"})
    /\ RecsDeEntrada[1].prioridad = "baja"
    /\ RecsDeEntrada[2].prioridad = "alta"
    /\ RecsDeEntrada[3].prioridad = "alta"
    /\ Len(Bloques) = 3
    /\ Bloques[3].rec = RecsDeEntrada[1]

\* the analysis bundle handed to the section builders
BundleDeEntrada == analisis_completo[1]

\* C12: for every pair of NDVI and NDMI scores in 0..10, the overall score
\* of every executive summary that is built is their arithmetic mean,
\* (ndvi + ndmi) / 2, shown with one decimal, whether the SAVI analysis is
\* absent or present with any score.
C12_PuntuacionGeneral ==
    (/\ resumen # <<>>
     /\ resumen[1].error = ""
     /\ "puntuacion" \in DOMAIN BundleDeEntrada.ndvi
     /\ "puntuacion" \in DOMAIN BundleDeEntrada.ndmi) =>
        LET suma == BundleDeEntrada.ndvi.puntuacion + BundleDeEntrada.ndmi.puntuacion
        IN  /\ resumen[1].promedio_general[1] * 2 = suma * resumen[1].promedio_general[2]
            /\ resumen[1].puntuacion_general
                  = Str(suma \div 2) \o <<".", IF suma % 2 = 1 THEN "5" ELSE "0", "/10">>

\* the summary of scores 8 and 6 was built with a SAVI analysis scoring 10
C12_Witness ==
    /\ resumen # <<>>
    /\ BundleDeEntrada.ndvi = [indice |-> "ndvi", puntuacion |-> 8]
    /\ BundleDeEntrada.ndmi = [indice |-> "ndmi", puntuacion |-> 6]
    /\ BundleDeEntrada.savi = Some([indice |-> "savi", puntuacion |-> 10])
    /\ resumen[1].puntuacion_general = <<"7", ".", "0", "/10">>

\* the metric fields of a stored row, in the order of the table's columns
CamposMetricos ==
    <<"ndvi_promedio", "ndmi_promedio", "savi_promedio",
      "temperatura_promedio", "precipitacion_total">>

\* the keys of a prepared record, in the same order
ClavesMetricas == <<"ndvi", "ndmi", "savi", "temperatura", "precipitacion">>

\* C13: the data table has the header row and then exactly one row per
\* monthly record, in the records' order, each starting with the record's
\* period; every metric that is absent in a record (NDVI, NDMI, SAVI,
\* temperature, precipitation) is shown as 'N/D' and never as a number.
C13_TablaFilasYAusentes ==
    tabla # <<>> =>
        /\ Len(tabla) = Len(indices) + 1
        /\ tabla[1] = Encabezado
        /\ \A i \in 1..Len(indices) :
              /\ Len(tabla[i + 1]) = 6
              /\ tabla[i + 1][1] = PeriodoTexto(indices[i])
              /\ \A k \in 1..5 :
                    indices[i][CamposMetricos[k]] = None
                        => /\ tabla[i + 1][k + 1] = ND
                           /\ tabla[i + 1][k + 1] # Formato(0, IF k <= 3 THEN 3 ELSE 1)

\* a table of two records was built, the first lacking NDVI and the second
\* holding every metric
C13_Witness ==
    /\ tabla # <<>>
    /\ Len(indices) = 2
    /\ indices[1].ndvi_promedio = None
    /\ \A k \in 1..5 : indices[2][CamposMetricos[k]] # None
    /\ tabla[2][2] = ND
    /\ tabla[3][2] = <<"0", ".", "6", "5", "0">>
    /\ tabla[3][5] = <<"2", "0", ".", "5">>

\* C14: the preparer outputs one record per row, in order, keeping an
\* absent metric as None and a present zero as 0, and the data table shows
\* a present zero as a number, not as 'N/D'.
C14_CeroNoEsAusente ==
    /\ datos_analisis # <<>> =>
          /\ Len(datos_analisis) = Len(indices)
          /\ \A i \in 1..Len(indices) :
                /\ datos_analisis[i].periodo = PeriodoTexto(indices[i])
                /\ \A k \in 1..5 :
                      datos_analisis[i][ClavesMetricas[k]] = indices[i][CamposMetricos[k]]
    /\ tabla # <<>> =>
          \A i \in 1..Len(indices) :
              \A k \in 1..5 :
                  indices[i][CamposMetricos[k]] = Some(0) => tabla[i + 1][k + 1] # ND

\* C15: in every recommendations section that is built, each free-text
\* field of each recommendation (title, technical and simple description,
\* each rendered action, expected impact, implementation time) is embedded
\* as limpiar_html_para_reportlab returns it, so that no row of any block
\* contains a raw '<br>'.
C15_RecomendacionesLimpias ==
    (seccion_recs # <<>> /\ seccion_recs[1].error = "") =>
        \A i \in 1..Len(Bloques) :
            LET b  == Bloques[i]
                na == Len(PrimerasAcciones(b.rec))
            IN  /\ \A f \in 1..Len(b.rec_data) : ~Contains(b.rec_data[f], BR)
                /\ b.rec_data[2] = <<"<strong>Para tecnicos:</strong> ">>
                      \o limpiar_html_para_reportlab(b.rec.descripcion_tecnica)
                /\ b.rec_data[3] = <<"<strong>En palabras simples:</strong> ">>
                      \o limpiar_html_para_reportlab(b.rec.descripcion_simple)
                /\ \A k \in 1..na :
                      b.rec_data[4 + k]
                         = <<"  * ">> \o limpiar_html_para_reportlab(b.rec.acciones[k])
                /\ b.rec_data[5 + na] = <<"<strong>Impacto esperado:</strong> ">>
                      \o limpiar_html_para_reportlab(b.rec.impacto_esperado)
                /\ b.rec_data[6 + na] = <<"<strong>Tiempo de implementacion:</strong> ">>
                      \o limpiar_html_para_reportlab(b.rec.tiempo_implementacion)

\* C16: every row handed to _preparar_datos_analisis has a (year, month)
\* not earlier than the computed start month and not later than the
\* current month, also when the start month lies in an earlier calendar
\* year than the current one, and the rows are in ascending order.
C16_FilasDelPeriodo ==
    pc = "preparar" =>
        /\ \A i \in 1..Len(indices) :
              /\ IndiceDeMes(indices[i]) >= IndiceDeMes(fecha_inicio[1])
              /\ IndiceDeMes(indices[i]) <= IndiceDeMes(hoy)
        /\ \A i, j \in 1..Len(indices) :
              i < j => IndiceDeMes(indices[i]) < IndiceDeMes(indices[j])

\* C17: a run of whitespace that follows a normalized break and is followed
\* by non-whitespace text comes out as exactly one space: the input '<br>',
\* then one or more whitespace characters, then 'x' is sanitized to
\* '<br/> x'.
C17_UnEspacioTrasBreak ==
    (/\ pasadas >= 1
     /\ Len(texto) >= 6
     /\ SubSeq(texto, 1, 4) = BR
     /\ \A i \in 5..(Len(texto) - 1) : IsWs(texto[i])
     /\ texto[Len(texto)] = "x") =>
        salida1 = BRS \o <<" ", "x">>

\* C18: on every page, the first and the later ones alike, and whether the
\* branding mark is missing, is drawn, or fails to draw, the callback draws
\* the fixed header title, the centred page number of that page and the
\* right-aligned date; a branding failure is not raised to the caller; and
\* the canvas state saved at entry is restored exactly once, at the end.
C18_HeaderFooterEnCadaPagina ==
    /\ error = ""
    /\ pila_canvas = 0
    /\ \A i \in 1..Len(paginas) :
          LET ops == paginas[i].ops
          IN  /\ ops[1].op = "saveState"
              /\ ops[Len(ops)].op = "restoreState"
              /\ Cuenta(ops, "saveState") = 1
              /\ Cuenta(ops, "restoreState") = 1
              /\ \E k \in 1..Len(ops) :
                    ops[k] = Op("drawString", <<"AgroTech - Analisis Satelital Agricola">>)
              /\ \E k \in 1..Len(ops) :
                    ops[k] = Op("drawCentredString", <<"Pagina ">> \o Str(i))
              /\ \E k \in 1..Len(ops) :
                    /\ ops[k].op = "drawRightString"
                    /\ ops[k].texto = FechaDeHoy
              /\ Cuenta(ops, "drawImage") = (IF paginas[i].logo = "dibujable" THEN 1 ELSE 0)

\* three pages were stamped: the mark failed on the first, was missing on
\* the second and was drawn on the third
C18_Witness ==
    /\ Len(paginas) = 3
    /\ paginas[1].logo = "falla"
    /\ paginas[2].logo = "ausente"
    /\ paginas[3].logo = "dibujable"
    /\ Cuenta(paginas[1].ops, "drawString") = 1

\* every recommendation's priority is alta, media or baja, or is missing
PrioridadesConocidas ==
    \A i \in 1..Len(RecsDeEntrada) :
        PrioridadDe(RecsDeEntrada[i]) \in {"alta", "media", "baja"}

\* C19: for every list of N recommendations whose priority is alta, media,
\* baja or missing, the section has exactly N blocks, one for each input
\* recommendation, a recommendation without priority is in the low group,
\* the displayed numbers are 1..N in rendering order, and the executive
\* summary's count of high-priority recommendations is the number of blocks
\* of the high group.
C19_NadaSePierde ==
    (resumen # <<>> /\ seccion_recs # <<>> /\ PrioridadesConocidas) =>
        /\ seccion_recs[1].error = ""
        /\ Len(Bloques) = Len(RecsDeEntrada)
        /\ \A i \in 1..Len(RecsDeEntrada) :
              /\ Cardinality({k \in 1..Len(Bloques) : Bloques[k].rec = RecsDeEntrada[i]}) = 1
              /\ "prioridad" \notin DOMAIN RecsDeEntrada[i] =>
                    \A k \in 1..Len(Bloques) :
                        Bloques[k].rec = RecsDeEntrada[i] => Bloques[k].seccion = "baja"
        /\ \A k \in 1..Len(Bloques) : Bloques[k].numero = k
        /\ resumen[1].error = ""
        /\ resumen[1].altas
              = Cardinality({k \in 1..Len(Bloques) : Bloques[k].seccion = "alta"})

\* C20: once the period is computed, fecha_inicio is the month exactly
\* meses_atras months before the current month (year * 12 + month is lower
\* by exactly meses_atras), its month is always in 1..12, and one step back
\* from January gives December of the previous year.
C20_InicioDelPeriodo ==
    fecha_inicio # <<>> =>
        /\ fecha_inicio[1].mes \in 1..12
        /\ IndiceDeMes(fecha_inicio[1]) = IndiceDeMes(hoy) - meses_atras
        /\ (hoy.mes = 1 /\ meses_atras = 1) =>
              fecha_inicio[1] = [anio |-> hoy.anio - 1, mes |-> 12]

\* the period of a request made in January and looking 13 months back was
\* computed: it starts in December two years earlier
C20_Witness ==
    /\ fecha_inicio # <<>>
    /\ hoy = [anio |-> 2024, mes |-> 1]
    /\ meses_atras = 13
    /\ fecha_inicio[1] = [anio |-> 2022, mes |-> 12]

=============================================================================
